---- MODULE Spec2Model ----
(***************************************************************************)
(* filesrv: the in-memory LRU cache (memoryCacheFilesystem), its           *)
(* invalidator (cacheInvalidator) and the origin they talk to.             *)
(*                                                                         *)
(* Request handlers are the tasks of Tasks, each running Open(name); the   *)
(* invalidator's goroutine is the one run() loop.  Every mutex             *)
(* acquisition is a step of its own, so the states in which a task holds   *)
(* fs.mux or ci.mux are states of the model.                               *)
(***************************************************************************)
EXTENDS Integers, Sequences, FiniteSets, TLC

\* ------------------------------------------------------------------ bounds
\* largest maxItems NewCache is given with concurrent handlers (0..MaxCap)
MaxCap == 2
\* largest maxItems NewCache is given with the sequential client (0..MaxSeqCap)
MaxSeqCap == 2
\* origin calls the concurrent handlers may make in one behaviour
MaxFetch == 2
\* number of Opens the sequential client issues in one behaviour
MaxOpens == 5
\* origin calls the handlers of the three-file run may make in one behaviour
MaxConcFetch == 4
\* largest Capacity the Ratelimiter is given (1..MaxTokens)
MaxTokens == 1
\* HTTP requests that arrive in one behaviour
MaxRequests == 3
\* largest offset a Seek is given
MaxSeek == 2
\* the maxSize the cache is built with, in bytes
MaxBytes == 1
\* calls of Take made concurrently in one behaviour
MaxTakes == 4

\* ------------------------------------------------------------ the universe
Files == <<"file1", "file2", "file3">>
\* names the sequential client asks for
Keys == {Files[i] : i \in 1..3}
\* names the concurrent handlers ask for
ConcKeys == {Files[i] : i \in 1..2}
Tasks == {1, 2}
SeqTask == 1
Sweeper == 0
Free == -1
\* the representations the origin serves for one file over time
Representations == {1, 2}

\* no response at hand
NoStatus == -1

\* the request failed in transport
TransportError == 0

\* what a HEAD can come back with
Statuses == {TransportError, 200, 304, 404, 408, 429}

\* ------------------------------------------------------------ HTTP requests
\* r.URL.Path of the requests that arrive
Paths == {"/file1", "/file2", "file2"}

\* strings.HasPrefix(upath, "/")
HasPrefixSlash(upath) == upath \in {"/file1", "/file2"}

\* r.URL.RawQuery of the requests that arrive
Queries == {"", "v=2"}

\* client addresses: the X-Forwarded-For header (may be absent) and RemoteAddr
\* (may be one net.SplitHostPort cannot split)
Requests ==
    [path : Paths, query : Queries, xff : {"", "10.0.0.1"}, remote : {"10.0.0.2", "bad"}]

\* path.Clean: every path drawn here is already the shortest form of itself
Clean(upath) == upath

\* fileHandler.ServeHTTP: the name it hands to serveFile
ServeName(r) ==
    LET upath == IF HasPrefixSlash(r.path) THEN r.path ELSE "/" \o r.path
    IN  Clean(IF r.query # "" THEN upath \o "?" \o r.query ELSE upath)

\* the file of the origin that a name is a request for: the origin gets
\* origin + name as the URL and resolves its path
Resource(k) ==
    IF k \in {Files[i] : i \in 1..Len(Files)} THEN k
    ELSE CHOOSE x \in {Files[i] : i \in 1..Len(Files)} :
            \E q \in Queries : k = ServeName([path |-> "/" \o x, query |-> q])

\* ----------------------------------------------------------- Go map values
EmptyMap == [k \in {} |-> 0]

MapSet(m, k, v) == [x \in (DOMAIN m) \cup {k} |-> IF x = k THEN v ELSE m[x]]

MapDelete(m, k) == [x \in (DOMAIN m) \ {k} |-> m[x]]

\* a read of a missing key yields the zero value of the element type
MapGet(m, k, zero) == IF k \in DOMAIN m THEN m[k] ELSE zero

\* ------------------------------------------------------------ file, fileInfo
\* an etag is the sequence of its characters
NoTag == <<>>

Digit == <<"1", "2", "3">>

\* the etag the origin gives the v-th representation of a file
Tag(v) == <<"t", "a", "g", Digit[v]>>

ZeroFileInfo ==
    [basename |-> "", modtime |-> 0, size |-> 0, contentType |-> "", etag |-> NoTag]

\* the bytes.Reader a file is built with; a readClone's reader is named after
\* the task that made it
OwnReader == 0

\* a file is its bytes, its fileInfo, its ReadSeeker and the offset of that
NoFile == [buf |-> <<>>, fi |-> ZeroFileInfo, rd |-> OwnReader, pos |-> 0]

NoEntry == [file |-> NoFile, name |-> ""]

KeyIndex(k) == CHOOSE i \in 1..Len(Files) : Files[i] = Resource(k)

\* the body the origin serves for k in its v-th representation
Body(k, v) == [i \in 1..(KeyIndex(k) + v - 1) |-> k]

\* the file the origin client builds from the response for k (v-th representation):
\* modtime and etag both identify the representation
OriginFile(k, v) ==
    [buf |-> Body(k, v),
     fi  |-> [basename |-> k, modtime |-> v, size |-> Len(Body(k, v)),
              contentType |-> "application/text", etag |-> Tag(v)],
     rd  |-> OwnReader,
     pos |-> 0]

readCloneSharesReader(f, new) == f

\* readClone: the new bytes.Reader over the bytes of f, and a copy of its fileInfo
readClone(f, new) == [buf |-> f.buf, fi |-> f.fi, rd |-> new, pos |-> 0]

\* -------------------------------------------------------- the origin client
\* names asked of the origin: one without an extension, one with a known one
RemoteNames == {"/file1", "/logo.png"}

\* mime.TypeByExtension(filepath.Ext(name))
TypeByExtension(n) == IF n = "/logo.png" THEN "image/png" ELSE ""

\* http.DetectContentType of the bytes sniffed: every body here is text
DetectContentType(b) == "text/plain; charset=utf-8"

sniffLen == 512

\* bodies an origin sends
RemoteBodies == {<<"a">>, <<"a", "b", "c">>}

\* hex.EncodeToString of the MD5 of the bytes
Md5Hex(b) ==
    CASE b = <<"a", "b", "c">> ->
            << "9","0","0","1","5","0","9","8","3","c","d","2","4","f","b","0",
               "d","6","9","6","3","f","7","d","2","8","e","1","7","f","7","2" >>
      [] b = <<"a">> ->
            << "0","c","c","1","7","5","b","9","c","0","f","1","b","6","a","8",
               "3","1","c","3","9","9","e","2","6","9","7","7","2","6","6","1" >>
      [] b = <<>> ->
            << "d","4","1","d","8","c","d","9","8","f","0","0","b","2","0","4",
               "e","9","8","0","0","9","9","8","e","c","f","8","4","2","7","e" >>

Quote == "\""

\* values of an ETag header: none, empty, a pair of quotes, quoted, bare, weak
ETagValues ==
    { NoTag, <<Quote, Quote>>, <<Quote, "v", "1", Quote>>, <<"v", "1">>,
      <<"W", "/", Quote, "v", "1", Quote>> }

RECURSIVE TrimLeft(_, _)
TrimLeft(s, c) == IF s # <<>> /\ Head(s) = c THEN TrimLeft(Tail(s), c) ELSE s

RECURSIVE TrimRight(_, _)
TrimRight(s, c) ==
    IF s # <<>> /\ s[Len(s)] = c THEN TrimRight(SubSeq(s, 1, Len(s) - 1), c) ELSE s

TrimKeepsQuotes(s, c) == s

\* strings.Trim(s, c) for a cutset of the one character c
Trim(s, c) == TrimRight(TrimLeft(s, c), c)

\* values of a Last-Modified header: in http.TimeFormat, and not
Modifieds == {"Mon, 02 Jan 2006 15:04:05 GMT", "yesterday"}

\* time.Parse(http.TimeFormat, v)
ParseTime(v) ==
    IF v = "Mon, 02 Jan 2006 15:04:05 GMT" THEN [err |-> FALSE, t |-> 1]
    ELSE [err |-> TRUE, t |-> 0]

\* what time.Now() may give
Clock == {2, 3}

\* the header of a response of the origin: the names it has and their values
ResHeaders ==
    { [has |-> h, ctype |-> c, etag |-> e, modified |-> m] :
        h \in SUBSET {"Content-Type", "Etag", "Last-Modified"},
        c \in {"", "image/gif"}, e \in ETagValues, m \in Modifieds \cup {""} }

\* a header is the Go map of it: a name that is not in it has no value
WellFormedHeader(h) ==
    /\ "Content-Type" \notin h.has => h.ctype = ""
    /\ "Etag" \notin h.has => h.etag = NoTag
    /\ "Last-Modified" \in h.has <=> h.modified # ""

\* what http.DefaultClient.Get gives: an error, or a response with its status,
\* declared length, header and body, the read of which may fail
Responses ==
    { r \in [err : BOOLEAN, StatusCode : {200, 404},
              ContentLength : {-1, 0, 1, 3}, Header : ResHeaders,
              Body : RemoteBodies \cup {<<>>}, readErr : BOOLEAN] :
        /\ WellFormedHeader(r.Header)
        /\ r.err => /\ r.StatusCode = 200 /\ r.ContentLength = 0 /\ r.Body = <<>>
                    /\ r.Header.has = {} /\ ~r.readErr
        /\ r.ContentLength >= 0 /\ ~r.readErr => Len(r.Body) = r.ContentLength
        /\ r.ContentLength >= 0 /\ r.readErr => Len(r.Body) < r.ContentLength
        /\ r.ContentLength = 0 => ~r.readErr }

\* bytes.NewReader(buf)
NewReader(buf) == [buf |-> buf, pos |-> 0]

\* bytes.Reader.Len: the bytes not yet read
ReaderLen(rd) == Len(rd.buf) - rd.pos

\* io.ReadFull(rd, b) for a b of n bytes: the bytes read, and the reader after
ReadFull(rd, n) ==
    LET k == IF ReaderLen(rd) < n THEN ReaderLen(rd) ELSE n
    IN  [b |-> SubSeq(rd.buf, rd.pos + 1, rd.pos + k), rd |-> [rd EXCEPT !.pos = @ + k]]

\* io.Copy(w, rd): the bytes from the offset of rd to the end, and the reader after
Copy(rd) ==
    [b |-> SubSeq(rd.buf, rd.pos + 1, Len(rd.buf)), rd |-> [rd EXCEPT !.pos = Len(rd.buf)]]

\* rd.Seek(0, os.SEEK_SET)
Rewind(rd) == [rd EXCEPT !.pos = 0]

\* getContentType: the header's first value, else the type of the extension,
\* else the type sniffed from the first bytes, after which rd is rewound
getContentType(r, rd, n) ==
    IF "Content-Type" \in r.Header.has
    THEN [ctype |-> r.Header.ctype, rd |-> rd]
    ELSE IF TypeByExtension(n) # ""
    THEN [ctype |-> TypeByExtension(n), rd |-> rd]
    ELSE LET read == ReadFull(rd, sniffLen)
         IN  [ctype |-> DetectContentType(read.b), rd |-> Rewind(read.rd)]

\* getETag: the Etag header without the quotes around it; when that is empty,
\* the MD5 of what io.Copy reads from rd
getETag(r, rd) ==
    LET etag == Trim(r.Header.etag, Quote)
        copied == Copy(rd)
    IN  IF etag # NoTag
        THEN [etag |-> etag, rd |-> rd]
        ELSE [etag |-> Md5Hex(copied.b), rd |-> copied.rd]

\* getModtime: the Last-Modified header when it parses, else the time it is
getModtime(r, now) ==
    LET parsed == ParseTime(r.Header.modified)
    IN  IF parsed.err THEN now ELSE parsed.t

\* what an Open returns
Failed(e) == [state |-> "err", err |-> e, file |-> NoFile]

Returned(file) == [state |-> "file", err |-> "", file |-> file]

remoteOpenAnyStatus(origin_, n, r, now) ==
    IF r.err THEN Failed("transport")
    ELSE IF r.ContentLength <= 0 THEN Failed("http: no such file")
    ELSE IF r.readErr THEN Failed("read")
    ELSE LET rd0 == NewReader(r.Body)
             ct  == getContentType(r, rd0, n)
             et  == getETag(r, ct.rd)
         IN  Returned([buf |-> r.Body,
                       fi  |-> [basename |-> origin_ \o n, modtime |-> getModtime(r, now),
                                size |-> ReaderLen(et.rd), contentType |-> ct.ctype,
                                etag |-> et.etag],
                       rd  |-> OwnReader,
                       pos |-> et.rd.pos])

\* remoteFileSystem.Open(name) when Get gave r: the error of Get,
\* http.ErrMissingFile for another status than 200 or no declared length, the
\* error of ReadAll, else the file of the body with its content type, etag,
\* modtime and the Len of its reader
remoteOpen(origin_, n, r, now) ==
    IF r.err THEN Failed("transport")
    ELSE IF r.StatusCode # 200 \/ r.ContentLength <= 0 THEN Failed("http: no such file")
    ELSE IF r.readErr THEN Failed("read")
    ELSE LET rd0 == NewReader(r.Body)
             ct  == getContentType(r, rd0, n)
             et  == getETag(r, ct.rd)
         IN  Returned([buf |-> r.Body,
                       fi  |-> [basename |-> origin_ \o n, modtime |-> getModtime(r, now),
                                size |-> ReaderLen(et.rd), contentType |-> ct.ctype,
                                etag |-> et.etag],
                       rd  |-> OwnReader,
                       pos |-> et.rd.pos])


\* ------------------------------------------------------------ container/list
InList(l, e) == \E i \in 1..Len(l) : l[i] = e

IndexOf(l, e) == CHOOSE i \in 1..Len(l) : l[i] = e /\ \A j \in 1..(i - 1) : l[j] # e

PushFront(l, e) == <<e>> \o l

Remove(l, e) ==
    IF InList(l, e)
    THEN SubSeq(l, 1, IndexOf(l, e) - 1) \o SubSeq(l, IndexOf(l, e) + 1, Len(l))
    ELSE l

MoveToFrontSkipped(l, e) == l

MoveToFront(l, e) == IF InList(l, e) THEN <<e>> \o Remove(l, e) ELSE l

BackIsFront(l) == l[1]

Back(l) == l[Len(l)]

\* ------------------------------------------------------------------- state
VARIABLES
    fs,      \* memoryCacheFilesystem: evictList, cache, size, maxItems, maxSize, mux
    ci,      \* cacheInvalidator: items, added, removed, lastmod, mux
    run,     \* cacheInvalidator.run: its locals items and lastmod, its position pc,
             \* the names still to range over (todo), the name at hand, the
             \* status of the HEAD just answered (st), the entry del removes (cent)
    origin,  \* the origin: files (the representation it now serves per name),
             \* filesStat (served fetches per name), openCnt (fetches asked)
    pc,      \* per task: its position in Open
    name,    \* per task: the argument of its Open
    f,       \* per task: the file its origin fetch returned
    cent,    \* per task: the entry removeElement hands to invalidator.Del
    client,  \* the sequential client: script (the names it opens, in order),
             \* at (the Open it is at), oks (the Opens that returned a file)
    hist,    \* history: changed (names whose HEAD said changed, not inserted
             \* since), race (who took fs.mux first when an insert and an evict
             \* of one name both waited for it)
    srv,     \* the HTTP side: chain (the handlers a request passes), the
             \* Ratelimiter (Capacity, buckets), and per task the request at
             \* hand (req), the handler it is at (at), what Open returned to
             \* the serve layer (ret) and the response written (resp)
    closer,  \* the caller of cacheInvalidator.Close: its position
    rfs,     \* remoteFileSystem: origin, and of the Open at hand its position
             \* (pc), its name, the response Get gave (res), what it returned
             \* (ret), and the response serveFile wrote for it (resp)
    ratelimiter       \* the Ratelimiter under concurrent Takes: Capacity, buckets (the
             \* bucket cached per key), tokens (per bucket ever made), and per
             \* task the position of its Take (pc), its key and its bucket;
             \* calls and granted count the Takes made and granted per key

vars == <<fs, ci, run, origin, pc, name, f, cent, client, hist, srv, closer, rfs, ratelimiter>>

NoClient == [script |-> <<>>, at |-> 0, oks |-> {}]

NoRace == [who |-> "none", ts |-> {}]

NoHist == [changed |-> {}, race |-> NoRace]

NoRequest == [path |-> "", query |-> "", xff |-> "", remote |-> ""]

NoReturn == [state |-> "none", file |-> NoFile]

\* the header of a response: the names it has, and their values
NoHeader == [has |-> {}, ctype |-> "", etag |-> NoTag]

NoResponse == [status |-> 0, header |-> NoHeader, body |-> <<>>]

NoRes ==
    [err |-> FALSE, StatusCode |-> 0, ContentLength |-> 0,
     Header |-> [has |-> {}, ctype |-> "", etag |-> NoTag, modified |-> ""],
     Body |-> <<>>, readErr |-> FALSE]

\* the hosts Take is called for
Hosts == {"10.0.0.1", "10.0.0.2"}

\* no bucket: what buckets.Get gives for a key that has none
NoBucket == 0

\* NewRatelimiter, with the given Capacity: no bucket is cached yet
NewRatelimiter(capacity) ==
    [Capacity |-> capacity,
     buckets  |-> EmptyMap,
     tokens   |-> <<>>,
     pc       |-> [t \in Tasks |-> "idle"],
     key      |-> [t \in Tasks |-> ""],
     bucket   |-> [t \in Tasks |-> NoBucket],
     calls    |-> 0,
     granted  |-> [k \in Hosts |-> 0]]

\* New(origin)
newRemoteFileSystem ==
    [origin |-> "http://origin", pc |-> "idle", name |-> "", res |-> NoRes,
     ret |-> Failed(""), w |-> NoResponse, resp |-> NoResponse]

\* the handlers a request passes, outermost first
\* installHandlers at the default log severity: handler.Use(http.FileServer(fs), RecoveryHandler)
InstalledChain == <<"RecoveryHandler", "http.FileServer">>

\* TestServeConcurrent: http.Handle("/", FileServer(cache))
FileServerChain == <<"FileServer">>

\* ratelimitHandler(h) around this package's file server
RatelimitedChain == <<"ratelimitHandler", "FileServer">>

Chains == {InstalledChain, FileServerChain, RatelimitedChain}

\* no server: nothing arrives over HTTP
NoServer ==
    [chain |-> <<>>, Capacity |-> 0, buckets |-> [k \in {} |-> 0], n |-> 0,
     req |-> [t \in Tasks |-> NoRequest], at |-> [t \in Tasks |-> 0],
     granted |-> [t \in Tasks |-> FALSE], invoked |-> [t \in Tasks |-> 0],
     ret |-> [t \in Tasks |-> NoReturn], resp |-> [t \in Tasks |-> NoResponse]]

\* a server with the given chain; NewRatelimiter's buckets start empty
NewServer(chain, capacity) == [NoServer EXCEPT !.chain = chain, !.Capacity = capacity]

NewCache(maxItems, maxSize) ==
    [evictList |-> <<>>, cache |-> EmptyMap, size |-> 0, maxItems |-> maxItems,
     maxSize |-> maxSize, mux |-> Free]

newCacheInvalidator ==
    [items |-> EmptyMap, added |-> {}, removed |-> {}, lastmod |-> 0, mux |-> Free,
     quit |-> FALSE]

runStart ==
    [pc |-> "select", items |-> EmptyMap, lastmod |-> 0, todo |-> {}, name |-> "",
     st |-> NoStatus, cent |-> NoEntry]

newFakeFs ==
    [files |-> [k \in Keys |-> 1], filesStat |-> [k \in Keys |-> 0], openCnt |-> 0]

Start(cap, scripts) ==
    /\ \E n \in 0..cap : fs = NewCache(n, MaxBytes)
    /\ \E s \in scripts : client = [NoClient EXCEPT !.script = s]
    /\ hist = NoHist
    /\ ci = newCacheInvalidator
    /\ run = runStart
    /\ origin = newFakeFs
    /\ pc = [t \in Tasks |-> "idle"]
    /\ name = [t \in Tasks |-> ""]
    /\ f = [t \in Tasks |-> NoFile]
    /\ cent = [t \in Tasks |-> NoEntry]
    /\ closer = "idle"
    /\ rfs = newRemoteFileSystem
    /\ \E c \in 1..MaxTokens : ratelimiter = NewRatelimiter(c)

Init == Start(MaxCap, {<<>>}) /\ srv = NoServer

InitSeq == Start(MaxSeqCap, [1..MaxOpens -> Keys]) /\ srv = NoServer

\* a server in front of the cache
InitServe ==
    /\ Start(MaxCap, {<<>>})
    /\ \E ch \in Chains, c \in 1..MaxTokens : srv = NewServer(ch, c)

\* ------------------------------------------------------- cache, pure parts
removeElementKeepsMap(c, e) ==
    [c EXCEPT !.evictList = Remove(@, e),
              !.size = @ - e.file.fi.size]

\* removeElement up to its call of invalidator.Del
removeElement(c, e) ==
    [c EXCEPT !.evictList = Remove(@, e),
              !.size = @ - e.file.fi.size,
              !.cache = MapDelete(@, e.name)]

pushEntryUnderFront(c, e) ==
    [c EXCEPT !.cache = MapSet(@, e.name, IF c.evictList = <<>> THEN e ELSE c.evictList[1]),
              !.evictList = PushFront(@, e),
              !.size = @ + e.file.fi.size]

\* add: the new entry goes to the front of the list and into the map
pushEntry(c, e) ==
    [c EXCEPT !.cache = MapSet(@, e.name, e),
              !.evictList = PushFront(@, e),
              !.size = @ + e.file.fi.size]

OverfullOffByOne(c) == Len(c.evictList) > c.maxItems + 1

OverfullAtCapacity(c) == Len(c.evictList) >= c.maxItems

OverfullBySize(c) == Len(c.evictList) > c.maxItems \/ c.size > c.maxSize

\* add: the test that calls removeOldest
Overfull(c) == Len(c.evictList) > c.maxItems

\* ------------------------------------------------- invalidator, pure parts
ciAddKeepsLastmod(c, e) ==
    [c EXCEPT !.items = MapSet(@, e.name, e.file.fi),
              !.added = @ \cup {e.name}]

\* invalidator.Add: the record is stored, the name noted as added
ciAdd(c, e) ==
    [c EXCEPT !.items = MapSet(@, e.name, e.file.fi),
              !.added = @ \cup {e.name},
              !.lastmod = @ + 1]

ciDelKeepsRecord(c, e) ==
    [c EXCEPT !.removed = @ \cup {e.name},
              !.lastmod = @ + 1]

\* invalidator.Del: the record goes, and the name is noted as removed
ciDel(c, e) ==
    [c EXCEPT !.items = MapDelete(@, e.name),
              !.removed = @ \cup {e.name},
              !.lastmod = @ + 1]

\* run: the local items after the two loops over ci.removed and ci.added
foldItems(c, items) ==
    LET kept == [k \in (DOMAIN items) \ c.removed |-> items[k]]
    IN  [k \in (DOMAIN kept) \cup c.added |->
            IF k \in c.added THEN MapGet(c.items, k, ZeroFileInfo) ELSE kept[k]]

\* what a conditional HEAD for fi can come back with: a request without a URL
\* (the zero fileInfo) fails in the client
HeadOutcomes(fi) == IF fi.basename = "" THEN {TransportError} ELSE Statuses

checkNotModifiedInvalidates(st) ==
    IF st = TransportError THEN [uptodate |-> FALSE, err |-> TRUE]
    ELSE IF st \in {429, 408} THEN [uptodate |-> FALSE, err |-> TRUE]
    ELSE [uptodate |-> FALSE, err |-> FALSE]

checkRetryInvalidates(st) ==
    IF st = TransportError THEN [uptodate |-> FALSE, err |-> TRUE]
    ELSE IF st = 304 THEN [uptodate |-> TRUE, err |-> FALSE]
    ELSE [uptodate |-> FALSE, err |-> FALSE]

checkChangedKept(st) ==
    IF st = TransportError THEN [uptodate |-> FALSE, err |-> TRUE]
    ELSE IF st \in {304, 200} THEN [uptodate |-> TRUE, err |-> FALSE]
    ELSE IF st \in {429, 408} THEN [uptodate |-> FALSE, err |-> TRUE]
    ELSE [uptodate |-> FALSE, err |-> FALSE]

\* check: (uptodate, err) for the outcome st of the HEAD
check(st) ==
    IF st = TransportError THEN [uptodate |-> FALSE, err |-> TRUE]
    ELSE IF st = 304 THEN [uptodate |-> TRUE, err |-> FALSE]
    ELSE IF st \in {429, 408} THEN [uptodate |-> FALSE, err |-> TRUE]
    ELSE [uptodate |-> FALSE, err |-> FALSE]

\* ------------------------------------------------------------ Open, by task
\* origin calls already asked for plus those the running Opens may still make
Committed == origin.openCnt + Cardinality({t \in Tasks : pc[t] \in {"get", "get_cs", "fetch"}})

\* the sequential client notes what its Open returned
noted(ok) ==
    IF client.at > 0 /\ ok THEN [client EXCEPT !.oks = @ \cup {client.at}] ELSE client

\* what Open returns reaches the serve layer when the task serves a request
opened(t, st, file) ==
    IF srv.at[t] = 0 THEN srv ELSE [srv EXCEPT !.ret[t] = [state |-> st, file |-> file]]

\* a handler calls Open(k)
Open_call(t, k) ==
    /\ pc[t] = "idle"
    /\ Committed < MaxFetch
    /\ pc' = [pc EXCEPT ![t] = "get"]
    /\ name' = [name EXCEPT ![t] = k]
    /\ UNCHANGED <<fs, ci, run, origin, f, cent, client, hist, srv, closer, rfs, ratelimiter>>

\* a goroutine of the three-file run calls Open(k)
Open_go(t, k) ==
    /\ pc[t] = "idle"
    /\ origin.openCnt + Cardinality({u \in Tasks : pc[u] \in {"get", "get_cs", "fetch"}})
           < MaxConcFetch
    /\ pc' = [pc EXCEPT ![t] = "get"]
    /\ name' = [name EXCEPT ![t] = k]
    /\ UNCHANGED <<fs, ci, run, origin, f, cent, client, hist, srv, closer, rfs, ratelimiter>>

\* the sequential client calls Open for the next name of its script
Open_script(t) ==
    /\ pc[t] = "idle"
    /\ client.at < Len(client.script)
    /\ client' = [client EXCEPT !.at = @ + 1]
    /\ pc' = [pc EXCEPT ![t] = "get"]
    /\ name' = [name EXCEPT ![t] = client.script[client.at + 1]]
    /\ UNCHANGED <<fs, ci, run, origin, f, cent, hist, srv, closer, rfs, ratelimiter>>

\* get: fs.mux.Lock()
get_Lock(t) ==
    /\ pc[t] = "get"
    /\ fs.mux = Free
    /\ fs' = [fs EXCEPT !.mux = t]
    /\ pc' = [pc EXCEPT ![t] = "get_cs"]
    /\ UNCHANGED <<ci, run, origin, name, f, cent, client, hist, srv, closer, rfs, ratelimiter>>

\* get: the lookup, the promotion on a hit, the deferred Unlock; on a hit Open
\* returns the clone
get(t) ==
    /\ pc[t] = "get_cs"
    /\ IF name[t] \in DOMAIN fs.cache
       THEN /\ fs' = [fs EXCEPT !.evictList = MoveToFront(@, fs.cache[name[t]]),
                                !.mux = Free]
            /\ pc' = [pc EXCEPT ![t] = "idle"]
            /\ name' = [name EXCEPT ![t] = ""]
            /\ client' = noted(TRUE)
            /\ srv' = opened(t, "file", readClone(fs.cache[name[t]].file, t))
       ELSE /\ fs' = [fs EXCEPT !.mux = Free]
            /\ pc' = [pc EXCEPT ![t] = "fetch"]
            /\ UNCHANGED <<name, client, srv>>
    /\ UNCHANGED <<ci, run, origin, f, cent, hist, closer, rfs, ratelimiter>>

fs_OpenCachesFailure(t) ==
    /\ pc[t] = "fetch"
    /\ \E fails \in BOOLEAN :
         IF fails
         THEN /\ origin' = [origin EXCEPT !.openCnt = @ + 1]
              /\ pc' = [pc EXCEPT ![t] = "idle"]
              /\ name' = [name EXCEPT ![t] = ""]
              /\ f' = f
              /\ srv' = opened(t, "err", NoFile)
              /\ fs' = [fs EXCEPT !.cache = MapSet(@, name[t], [file |-> NoFile, name |-> name[t]]),
                                  !.evictList = PushFront(@, [file |-> NoFile, name |-> name[t]])]
         ELSE /\ origin' = [origin EXCEPT !.openCnt = @ + 1,
                                          !.filesStat[Resource(name[t])] = @ + 1]
              /\ f' = [f EXCEPT ![t] = OriginFile(name[t], origin.files[Resource(name[t])])]
              /\ pc' = [pc EXCEPT ![t] = "add"]
              /\ name' = name
              /\ srv' = srv
              /\ fs' = fs
    /\ UNCHANGED <<ci, run, cent, client, hist, closer, rfs, ratelimiter>>

\* Open: fs.fs.Open(name), the origin call; it fails when the origin does not
\* serve the file or the transport fails, and then Open returns the error
fs_Open(t) ==
    /\ pc[t] = "fetch"
    /\ \E fails \in BOOLEAN :
         IF fails
         THEN /\ origin' = [origin EXCEPT !.openCnt = @ + 1]
              /\ pc' = [pc EXCEPT ![t] = "idle"]
              /\ name' = [name EXCEPT ![t] = ""]
              /\ f' = f
              /\ srv' = opened(t, "err", NoFile)
         ELSE /\ origin' = [origin EXCEPT !.openCnt = @ + 1,
                                          !.filesStat[Resource(name[t])] = @ + 1]
              /\ f' = [f EXCEPT ![t] = OriginFile(name[t], origin.files[Resource(name[t])])]
              /\ pc' = [pc EXCEPT ![t] = "add"]
              /\ name' = name
              /\ srv' = srv
    /\ UNCHANGED <<fs, ci, run, cent, client, hist, closer, rfs, ratelimiter>>

\* add: fs.mux.Lock()
add_Lock(t) ==
    /\ pc[t] = "add"
    /\ fs.mux = Free
    /\ fs' = [fs EXCEPT !.mux = t]
    /\ pc' = [pc EXCEPT ![t] = "add_cs"]
    /\ hist' = IF run.pc = "del" /\ run.name = name[t]
               THEN [hist EXCEPT !.race = [who |-> "insert", ts |-> {t}]]
               ELSE hist
    /\ UNCHANGED <<ci, run, origin, name, f, cent, client, srv, closer, rfs, ratelimiter>>

\* add, from the push of the new entry to the next call into the invalidator:
\* removeOldest hands the tail to Del, otherwise Add is next
add_push(t, c) ==
    LET pushed == pushEntry(c, [file |-> f[t], name |-> name[t]])
    IN  /\ IF Overfull(pushed) /\ Len(pushed.evictList) > 0
           THEN /\ fs' = removeElement(pushed, Back(pushed.evictList))
                /\ cent' = [cent EXCEPT ![t] = Back(pushed.evictList)]
                /\ pc' = [pc EXCEPT ![t] = "add_oldest"]
           ELSE /\ fs' = pushed
                /\ cent' = [cent EXCEPT ![t] = NoEntry]
                /\ pc' = [pc EXCEPT ![t] = "add_Add"]
        /\ hist' = [hist EXCEPT !.changed = @ \ {name[t]}]

\* add: an existing entry for the name is removed first
add(t) ==
    /\ pc[t] = "add_cs"
    /\ IF name[t] \in DOMAIN fs.cache
       THEN /\ fs' = removeElement(fs, fs.cache[name[t]])
            /\ cent' = [cent EXCEPT ![t] = fs.cache[name[t]]]
            /\ pc' = [pc EXCEPT ![t] = "add_existing"]
            /\ hist' = hist
       ELSE add_push(t, fs)
    /\ UNCHANGED <<ci, run, origin, name, f, client, srv, closer, rfs, ratelimiter>>

\* removeElement: invalidator.Del, ci.mux.Lock()
Del_Lock(t) ==
    /\ pc[t] \in {"add_existing", "add_oldest"}
    /\ ci.mux = Free
    /\ ci' = [ci EXCEPT !.mux = t]
    /\ pc' = [pc EXCEPT ![t] = IF pc[t] = "add_existing" THEN "Del_existing" ELSE "Del_oldest"]
    /\ UNCHANGED <<fs, run, origin, name, f, cent, client, hist, srv, closer, rfs, ratelimiter>>

\* invalidator.Del and the part of add that follows it
Del(t) ==
    /\ pc[t] \in {"Del_existing", "Del_oldest"}
    /\ ci' = [ciDel(ci, cent[t]) EXCEPT !.mux = Free]
    /\ IF pc[t] = "Del_existing"
       THEN add_push(t, fs)
       ELSE /\ pc' = [pc EXCEPT ![t] = "add_Add"]
            /\ cent' = [cent EXCEPT ![t] = NoEntry]
            /\ UNCHANGED <<fs, hist>>
    /\ UNCHANGED <<run, origin, name, f, client, srv, closer, rfs, ratelimiter>>

\* add: invalidator.Add, ci.mux.Lock()
Add_Lock(t) ==
    /\ pc[t] = "add_Add"
    /\ ci.mux = Free
    /\ ci' = [ci EXCEPT !.mux = t]
    /\ pc' = [pc EXCEPT ![t] = "Add_cs"]
    /\ UNCHANGED <<fs, run, origin, name, f, cent, client, hist, srv, closer, rfs, ratelimiter>>

\* invalidator.Add, then add returns a clone, unlocks fs.mux, and Open returns it
Add(t) ==
    /\ pc[t] = "Add_cs"
    /\ ci' = [ciAdd(ci, [file |-> f[t], name |-> name[t]]) EXCEPT !.mux = Free]
    /\ fs' = [fs EXCEPT !.mux = Free]
    /\ f' = [f EXCEPT ![t] = NoFile]
    /\ name' = [name EXCEPT ![t] = ""]
    /\ pc' = [pc EXCEPT ![t] = "idle"]
    /\ client' = noted(TRUE)
    /\ srv' = opened(t, "file", readClone(f[t], t))
    /\ hist' = IF hist.race.who = "evict" /\ t \in hist.race.ts
               THEN [hist EXCEPT !.race = IF @.ts = {t} THEN NoRace
                                          ELSE [@ EXCEPT !.ts = @ \ {t}]]
               ELSE hist
    /\ UNCHANGED <<run, origin, cent, closer, rfs, ratelimiter>>

\* ------------------------------------------------------------- the origin
\* the origin gets a new representation of the file
origin_put(k) ==
    /\ origin.files[k] + 1 \in Representations
    /\ origin' = [origin EXCEPT !.files[k] = @ + 1]
    /\ UNCHANGED <<fs, ci, run, pc, name, f, cent, client, hist, srv, closer, rfs, ratelimiter>>

\* ------------------------------------------------------ run, the sweep task
run_tickIgnoresQuit ==
    /\ run.pc = "select"
    /\ run' = [run EXCEPT !.pc = "fold"]
    /\ UNCHANGED <<fs, ci, origin, pc, name, f, cent, client, hist, srv, closer, rfs, ratelimiter>>

\* the period elapses before quit is closed
run_tick ==
    /\ run.pc = "select"
    /\ ~ci.quit
    /\ run' = [run EXCEPT !.pc = "fold"]
    /\ UNCHANGED <<fs, ci, origin, pc, name, f, cent, client, hist, srv, closer, rfs, ratelimiter>>

\* ci.mux.Lock()
run_Lock ==
    /\ run.pc = "fold"
    /\ ci.mux = Free
    /\ ci' = [ci EXCEPT !.mux = Sweeper]
    /\ run' = [run EXCEPT !.pc = "fold_cs"]
    /\ UNCHANGED <<fs, origin, pc, name, f, cent, client, hist, srv, closer, rfs, ratelimiter>>

run_foldKeepsLock ==
    /\ run.pc = "fold_cs"
    /\ IF ci.lastmod # run.lastmod
       THEN /\ run' = [run EXCEPT !.lastmod = ci.lastmod,
                                  !.items = foldItems(ci, run.items),
                                  !.todo = DOMAIN foldItems(ci, run.items),
                                  !.pc = "range"]
            /\ ci' = [ci EXCEPT !.removed = {}, !.added = {}]
       ELSE /\ run' = [run EXCEPT !.todo = DOMAIN run.items, !.pc = "range"]
            /\ ci' = ci
    /\ UNCHANGED <<fs, origin, pc, name, f, cent, client, hist, srv, closer, rfs, ratelimiter>>

\* the fold of the deltas when lastmod differs, then ci.mux.Unlock()
run_fold ==
    /\ run.pc = "fold_cs"
    /\ IF ci.lastmod # run.lastmod
       THEN /\ run' = [run EXCEPT !.lastmod = ci.lastmod,
                                  !.items = foldItems(ci, run.items),
                                  !.todo = DOMAIN foldItems(ci, run.items),
                                  !.pc = "range"]
            /\ ci' = [ci EXCEPT !.removed = {}, !.added = {}, !.mux = Free]
       ELSE /\ run' = [run EXCEPT !.todo = DOMAIN run.items, !.pc = "range"]
            /\ ci' = [ci EXCEPT !.mux = Free]
    /\ UNCHANGED <<fs, origin, pc, name, f, cent, client, hist, srv, closer, rfs, ratelimiter>>

\* the range over items: the next name, in any order, and its HEAD is sent;
\* when none is left the sweep is over
run_range ==
    /\ run.pc = "range"
    /\ IF run.todo = {}
       THEN run' = [run EXCEPT !.pc = "select", !.name = "", !.st = NoStatus]
       ELSE \E k \in run.todo :
              run' = [run EXCEPT !.pc = "head", !.name = k, !.todo = @ \ {k},
                                 !.st = NoStatus]
    /\ UNCHANGED <<fs, ci, origin, pc, name, f, cent, client, hist, srv, closer, rfs, ratelimiter>>

\* the statuses that tell the cached representation is no longer current
Changed(st) == st \notin {TransportError, 304, 408, 429}

\* check: the HEAD comes back with st; the name is left alone or delfn is called
run_check(st) ==
    /\ run.pc = "head"
    /\ st \in HeadOutcomes(run.items[run.name])
    /\ IF check(st).err \/ check(st).uptodate
       THEN run' = [run EXCEPT !.pc = "range", !.st = st]
       ELSE run' = [run EXCEPT !.pc = "del", !.st = st]
    /\ hist' = IF Changed(st) THEN [hist EXCEPT !.changed = @ \cup {run.name}] ELSE hist
    /\ UNCHANGED <<fs, ci, origin, pc, name, f, cent, client, srv, closer, rfs, ratelimiter>>

\* del: fs.mux.Lock()
del_Lock ==
    /\ run.pc = "del"
    /\ fs.mux = Free
    /\ fs' = [fs EXCEPT !.mux = Sweeper]
    /\ run' = [run EXCEPT !.pc = "del_cs"]
    /\ hist' = IF hist.race.who # "insert" /\ \E t \in Tasks : pc[t] = "add" /\ name[t] = run.name
               THEN [hist EXCEPT !.race =
                        [who |-> "evict",
                         ts |-> {t \in Tasks : pc[t] = "add" /\ name[t] = run.name}]]
               ELSE hist
    /\ UNCHANGED <<ci, origin, pc, name, f, cent, client, srv, closer, rfs, ratelimiter>>

\* del: the lookup; a found entry is removed and handed to Del, otherwise del returns
del ==
    /\ run.pc = "del_cs"
    /\ IF run.name \in DOMAIN fs.cache
       THEN /\ fs' = removeElement(fs, fs.cache[run.name])
            /\ run' = [run EXCEPT !.pc = "del_Del", !.cent = fs.cache[run.name]]
       ELSE /\ fs' = [fs EXCEPT !.mux = Free]
            /\ run' = [run EXCEPT !.pc = "range"]
    /\ hist' = IF hist.race.who = "insert" THEN [hist EXCEPT !.race = NoRace] ELSE hist
    /\ UNCHANGED <<ci, origin, pc, name, f, cent, client, srv, closer, rfs, ratelimiter>>

\* removeElement: invalidator.Del, ci.mux.Lock()
del_Del_Lock ==
    /\ run.pc = "del_Del"
    /\ ci.mux = Free
    /\ ci' = [ci EXCEPT !.mux = Sweeper]
    /\ run' = [run EXCEPT !.pc = "del_Del_cs"]
    /\ UNCHANGED <<fs, origin, pc, name, f, cent, client, hist, srv, closer, rfs, ratelimiter>>

\* invalidator.Del, then del returns and unlocks fs.mux
del_Del ==
    /\ run.pc = "del_Del_cs"
    /\ ci' = [ciDel(ci, run.cent) EXCEPT !.mux = Free]
    /\ fs' = [fs EXCEPT !.mux = Free]
    /\ run' = [run EXCEPT !.pc = "range", !.cent = NoEntry]
    /\ UNCHANGED <<origin, pc, name, f, cent, client, hist, srv, closer, rfs, ratelimiter>>

\* ------------------------------------------------------- the HTTP handlers
\* the handler of the chain that task t's request is at
Handler(t) == IF srv.at[t] = 0 THEN "" ELSE srv.chain[srv.at[t]]

\* clientAddr: X-Forwarded-For when set, else the host of RemoteAddr
clientAddr(r) ==
    IF r.xff # "" THEN [host |-> r.xff, err |-> FALSE]
    ELSE IF r.remote = "bad" THEN [host |-> "", err |-> TRUE]
    ELSE [host |-> r.remote, err |-> FALSE]

\* the tokens in key's bucket; a key without a bucket gets a full one
Tokens(rl, key) == MapGet(rl.buckets, key, rl.Capacity)

TakeAlwaysGrants(rl, key) ==
    [ok |-> TRUE, buckets |-> MapSet(rl.buckets, key, Tokens(rl, key) - 1)]

\* Ratelimiter.Take: bucket.Take(1) commits the token, and returns no wait
\* when one was there
Take(rl, key) ==
    [ok |-> Tokens(rl, key) >= 1, buckets |-> MapSet(rl.buckets, key, Tokens(rl, key) - 1)]

\* the response written when the request is over at this handler
respond(t, rsp) ==
    [srv EXCEPT !.resp[t] = rsp,
                !.at[t] = 0,
                !.ret[t] = NoReturn]

\* http.Error on the response w: the text as plain text under the status
http_Error(w, text, status) ==
    [status |-> status,
     header |-> [w.header EXCEPT !.has = @ \cup {"Content-Type"},
                                 !.ctype = "text/plain; charset=utf-8"],
     body   |-> <<text>>]

\* w.Header().Set("Content-Type", v) when w has no Content-Type and v is not empty
SetContentType(h, v) ==
    IF "Content-Type" \notin h.has /\ v # ""
    THEN [h EXCEPT !.has = @ \cup {"Content-Type"}, !.ctype = v]
    ELSE h

SetETagAlways(h, v) == [h EXCEPT !.has = @ \cup {"ETag"}, !.etag = v]

\* w.Header().Set("ETag", v) when w has no ETag and v is not empty
SetETag(h, v) ==
    IF "ETag" \notin h.has /\ v # NoTag
    THEN [h EXCEPT !.has = @ \cup {"ETag"}, !.etag = v]
    ELSE h

\* http.ServeContent of a request without conditions: a Content-Type it
\* detects when w still has none, and the whole content from offset 0
ServeContent(h, content) ==
    [status |-> 200,
     header |-> SetContentType(h, "text/plain; charset=utf-8"),
     body   |-> content.buf]

serveFileResponseLeaks(w, ret) ==
    IF ret.state = "err"
    THEN http_Error(w, "Internal Server Error", 500)
    ELSE ServeContent(SetETag(SetContentType(w.header, ret.file.fi.contentType),
                              ret.file.fi.etag), ret.file)

\* serveFile on the response w: http.NotFound for an error of Open, else the
\* Content-Type and the ETag of the file where w has none, and
\* http.ServeContent of its bytes
serveFileResponse(w, ret) ==
    IF ret.state = "err"
    THEN http_Error(w, "404 page not found", 404)
    ELSE ServeContent(SetETag(SetContentType(w.header, ret.file.fi.contentType),
                              ret.file.fi.etag), ret.file)

\* a request arrives and a handler goroutine takes it
Request(t, r) ==
    /\ srv.chain # <<>>
    /\ srv.at[t] = 0
    /\ pc[t] = "idle"
    /\ srv.n < MaxRequests
    /\ srv' = [srv EXCEPT !.req[t] = r, !.at[t] = 1, !.n = @ + 1,
                          !.granted[t] = FALSE, !.invoked[t] = 0,
                          !.ret[t] = NoReturn, !.resp[t] = NoResponse]
    /\ UNCHANGED <<fs, ci, run, origin, pc, name, f, cent, client, hist, closer, rfs, ratelimiter>>

\* handler.RecoveryHandler: calls the handler it wraps
RecoveryHandler(t) ==
    /\ Handler(t) = "RecoveryHandler"
    /\ srv' = [srv EXCEPT !.at[t] = @ + 1]
    /\ UNCHANGED <<fs, ci, run, origin, pc, name, f, cent, client, hist, closer, rfs, ratelimiter>>

\* ratelimitHandler: 500 without a client address, 429 when Take declines,
\* else h.ServeHTTP
ratelimitHandler(t) ==
    /\ Handler(t) = "ratelimitHandler"
    /\ LET a == clientAddr(srv.req[t])
           taken == Take(srv, a.host)
       IN  IF a.err
           THEN srv' = respond(t, http_Error(srv.resp[t], "Internal Server Error", 500))
           ELSE IF ~taken.ok
           THEN srv' = [respond(t, http_Error(srv.resp[t], "Too many requests", 429))
                            EXCEPT !.buckets = taken.buckets]
           ELSE srv' = [srv EXCEPT !.buckets = taken.buckets,
                                   !.granted[t] = TRUE,
                                   !.invoked[t] = @ + 1,
                                   !.at[t] = @ + 1]
    /\ UNCHANGED <<fs, ci, run, origin, pc, name, f, cent, client, hist, closer, rfs, ratelimiter>>

\* a second passes: every bucket below Capacity gets FillRate tokens
Refill ==
    /\ \E k \in DOMAIN srv.buckets : srv.buckets[k] < srv.Capacity
    /\ srv' = [srv EXCEPT !.buckets =
                  [k \in DOMAIN @ |-> IF @[k] < srv.Capacity THEN @[k] + 1 ELSE @[k]]]
    /\ UNCHANGED <<fs, ci, run, origin, pc, name, f, cent, client, hist, closer, rfs, ratelimiter>>

\* fileHandler.ServeHTTP up to serveFile's fs.Open(name)
ServeHTTP(t) ==
    /\ Handler(t) = "FileServer"
    /\ pc[t] = "idle"
    /\ srv.ret[t] = NoReturn
    /\ name' = [name EXCEPT ![t] = ServeName(srv.req[t])]
    /\ pc' = [pc EXCEPT ![t] = "get"]
    /\ UNCHANGED <<fs, ci, run, origin, f, cent, client, hist, srv, closer, rfs, ratelimiter>>

\* serveFile after fs.Open has returned
serveFile(t) ==
    /\ Handler(t) = "FileServer"
    /\ pc[t] = "idle"
    /\ srv.ret[t] # NoReturn
    /\ srv' = respond(t, serveFileResponse(srv.resp[t], srv.ret[t]))
    /\ UNCHANGED <<fs, ci, run, origin, pc, name, f, cent, client, hist, closer, rfs, ratelimiter>>

\* net/http's FileServer up to fs.Open: the name is the cleaned path
http_FileServer(t) ==
    /\ Handler(t) = "http.FileServer"
    /\ pc[t] = "idle"
    /\ srv.ret[t] = NoReturn
    /\ name' = [name EXCEPT ![t] = ServeName([srv.req[t] EXCEPT !.query = ""])]
    /\ pc' = [pc EXCEPT ![t] = "get"]
    /\ UNCHANGED <<fs, ci, run, origin, f, cent, client, hist, srv, closer, rfs, ratelimiter>>

\* net/http's FileServer after fs.Open has returned: the file, or the status
\* it maps the error to
http_serveFile(t) ==
    /\ Handler(t) = "http.FileServer"
    /\ pc[t] = "idle"
    /\ srv.ret[t] # NoReturn
    /\ IF srv.ret[t].state = "err"
       THEN \E status \in {403, 404, 500} :
               srv' = respond(t, http_Error(srv.resp[t], "error", status))
       ELSE srv' = respond(t, ServeContent(srv.resp[t].header, srv.ret[t].file))
    /\ UNCHANGED <<fs, ci, run, origin, pc, name, f, cent, client, hist, closer, rfs, ratelimiter>>

Serving(t) ==
    \/ RecoveryHandler(t)
    \/ ratelimitHandler(t)
    \/ ServeHTTP(t)
    \/ serveFile(t)
    \/ http_FileServer(t)
    \/ http_serveFile(t)

\* ------------------------------------------- Ratelimiter.Take, by task
\* a handler calls Take(key)
Take_call(t, key) ==
    /\ ratelimiter.pc[t] = "idle"
    /\ ratelimiter.calls < MaxTakes
    /\ ratelimiter' = [ratelimiter EXCEPT !.pc[t] = "Get", !.key[t] = key, !.calls = @ + 1]
    /\ UNCHANGED <<fs, ci, run, origin, pc, name, f, cent, client, hist, srv, closer, rfs>>

\* v, ok := r.buckets.Get(key)
Take_Get(t) ==
    /\ ratelimiter.pc[t] = "Get"
    /\ ratelimiter' = [ratelimiter EXCEPT !.bucket[t] = MapGet(ratelimiter.buckets, ratelimiter.key[t], NoBucket),
                        !.pc[t] = IF ratelimiter.key[t] \in DOMAIN ratelimiter.buckets THEN "Take" ELSE "new"]
    /\ UNCHANGED <<fs, ci, run, origin, pc, name, f, cent, client, hist, srv, closer, rfs>>

\* no bucket was cached: a new, full one is made and cached under the key
Take_new(t) ==
    /\ ratelimiter.pc[t] = "new"
    /\ LET b == Len(ratelimiter.tokens) + 1
       IN  ratelimiter' = [ratelimiter EXCEPT !.tokens = Append(@, ratelimiter.Capacity),
                            !.buckets = MapSet(@, ratelimiter.key[t], b),
                            !.bucket[t] = b,
                            !.pc[t] = "Take"]
    /\ UNCHANGED <<fs, ci, run, origin, pc, name, f, cent, client, hist, srv, closer, rfs>>

\* return bucket.Take(1) == 0: the token is taken off the task's bucket, and
\* the call is granted when one was there
Take_Take(t) ==
    /\ ratelimiter.pc[t] = "Take"
    /\ ratelimiter' = [ratelimiter EXCEPT !.tokens[ratelimiter.bucket[t]] = @ - 1,
                        !.granted[ratelimiter.key[t]] =
                            IF ratelimiter.tokens[ratelimiter.bucket[t]] >= 1 THEN @ + 1 ELSE @,
                        !.pc[t] = "idle",
                        !.key[t] = "",
                        !.bucket[t] = NoBucket]
    /\ UNCHANGED <<fs, ci, run, origin, pc, name, f, cent, client, hist, srv, closer, rfs>>

\* ---------------------------------------------- the ReadSeeker of a file
\* two files have one and the same ReadSeeker
SameReader(a, b) == a.rd = b.rd /\ a.fi = b.fi

\* the file x once the ReadSeeker of h is at offset p
Moved(x, h, p) == IF SameReader(x, h) THEN [x EXCEPT !.pos = p] ELSE x

\* every file there is, once the ReadSeeker of h is at offset p
Seeked(h, p) ==
    /\ srv' = [srv EXCEPT !.ret = [u \in Tasks |-> [@[u] EXCEPT !.file = Moved(@, h, p)]]]
    /\ fs' = [fs EXCEPT
                 !.evictList = [i \in 1..Len(@) |-> [@[i] EXCEPT !.file = Moved(@, h, p)]],
                 !.cache = [k \in DOMAIN @ |-> [@[k] EXCEPT !.file = Moved(@, h, p)]]]
    /\ f' = [u \in Tasks |-> Moved(f[u], h, p)]

\* the serve layer has the file Open returned to task t, and has not closed it
Holds(t) == Handler(t) = "FileServer" /\ pc[t] = "idle" /\ srv.ret[t].state = "file"

\* Read of one byte on the file of task t
file_Read(t) ==
    /\ Holds(t)
    /\ srv.ret[t].file.pos < Len(srv.ret[t].file.buf)
    /\ Seeked(srv.ret[t].file, srv.ret[t].file.pos + 1)
    /\ UNCHANGED <<ci, run, origin, pc, name, cent, client, hist, closer, rfs, ratelimiter>>

\* Seek(o, os.SEEK_SET) on the file of task t
file_Seek(t, o) ==
    /\ Holds(t)
    /\ o \in 0..Len(srv.ret[t].file.buf)
    /\ o # srv.ret[t].file.pos
    /\ Seeked(srv.ret[t].file, o)
    /\ UNCHANGED <<ci, run, origin, pc, name, cent, client, hist, closer, rfs, ratelimiter>>

\* ------------------------------------------- remoteFileSystem.Open, served
\* the headers a handler in front of serveFile may have put on the response
PresetHeaders ==
    { h \in [has : SUBSET {"Content-Type", "ETag"}, ctype : {"", "text/css"},
             etag : {NoTag, <<"p">>}] :
        /\ "Content-Type" \in h.has <=> h.ctype # ""
        /\ "ETag" \in h.has <=> h.etag # NoTag }

\* Open(n) up to the return of http.DefaultClient.Get
rfs_Get(n, r) ==
    /\ rfs.pc = "idle"
    /\ rfs' = [rfs EXCEPT !.pc = "Get", !.name = n, !.res = r]
    /\ UNCHANGED <<fs, ci, run, origin, pc, name, f, cent, client, hist, srv, closer, ratelimiter>>

\* the rest of Open
rfs_Open(now) ==
    /\ rfs.pc = "Get"
    /\ rfs' = [rfs EXCEPT !.pc = "Open",
                          !.ret = remoteOpen(rfs.origin, rfs.name, rfs.res, now)]
    /\ UNCHANGED <<fs, ci, run, origin, pc, name, f, cent, client, hist, srv, closer, ratelimiter>>

\* serveFile with what Open returned, on a response that has the header h
rfs_serveFile(h) ==
    /\ rfs.pc = "Open"
    /\ LET w == [NoResponse EXCEPT !.header = h]
       IN  rfs' = [rfs EXCEPT !.pc = "served", !.w = w,
                              !.resp = serveFileResponse(w, rfs.ret)]
    /\ UNCHANGED <<fs, ci, run, origin, pc, name, f, cent, client, hist, srv, closer, ratelimiter>>

\* ------------------------------------------------- cacheInvalidator.Close
\* run: the select takes the closed quit channel and run returns; wg.Done()
run_quit ==
    /\ run.pc = "select"
    /\ ci.quit
    /\ run' = [run EXCEPT !.pc = "exited"]
    /\ UNCHANGED <<fs, ci, origin, pc, name, f, cent, client, hist, srv, closer, rfs, ratelimiter>>

\* Close: close(ci.quit), the goroutine that waits for wg, and the select
Close_call ==
    /\ closer = "idle"
    /\ ci' = [ci EXCEPT !.quit = TRUE]
    /\ closer' = "waiting"
    /\ UNCHANGED <<fs, run, origin, pc, name, f, cent, client, hist, srv, rfs, ratelimiter>>

\* Close: wg.Wait() is over, done is received and Close returns nil
Close_done ==
    /\ closer = "waiting"
    /\ run.pc = "exited"
    /\ closer' = "ok"
    /\ UNCHANGED <<fs, ci, run, origin, pc, name, f, cent, client, hist, srv, rfs, ratelimiter>>

\* Close: the five seconds are over before done is received; Close returns
\* the "Timed out" error
Close_timeout ==
    /\ closer = "waiting"
    /\ closer' = "Timeout"
    /\ UNCHANGED <<fs, ci, run, origin, pc, name, f, cent, client, hist, srv, rfs, ratelimiter>>

Closing ==
    \/ Close_call
    \/ run_quit
    \/ Close_done
    \/ Close_timeout

\* --------------------------------------------------------- specifications
\* Open past its call, for task t
Opening(t) ==
    \/ get_Lock(t)
    \/ get(t)
    \/ fs_Open(t)
    \/ add_Lock(t)
    \/ add(t)
    \/ Del_Lock(t)
    \/ Del(t)
    \/ Add_Lock(t)
    \/ Add(t)

Sweep ==
    \/ run_tick
    \/ run_Lock
    \/ run_fold
    \/ run_range
    \/ \E st \in Statuses : run_check(st)
    \/ del_Lock
    \/ del
    \/ del_Del_Lock
    \/ del_Del

\* concurrent handlers, the sweep and a changing origin
Next ==
    \/ \E t \in Tasks, k \in ConcKeys : Open_call(t, k)
    \/ \E t \in Tasks : Opening(t)
    \/ Sweep
    \/ \E k \in ConcKeys : origin_put(k)

Spec == Init /\ [][Next]_vars

\* the same with the scheduling the runtime gives: the ticker keeps firing and
\* the sweep's goroutine and every handler's goroutine keep running, a waiter
\* for a mutex that is free again and again getting it (sync.Mutex hands a
\* starving waiter the lock)
SpecLive ==
    /\ Spec
    /\ SF_vars(Sweep)
    /\ \A t \in Tasks : SF_vars(Opening(t))

\* one handler and the sweep, with a Close at any moment; the scheduling is
\* SpecLive's, and the timer of Close fires
NextClose ==
    \/ \E k \in ConcKeys : Open_call(SeqTask, k)
    \/ Opening(SeqTask)
    \/ Sweep
    \/ Closing

SpecClose ==
    /\ Init
    /\ [][NextClose]_vars
    /\ SF_vars(Sweep)
    /\ SF_vars(Opening(SeqTask))
    /\ WF_vars(run_quit)
    /\ WF_vars(Close_done \/ Close_timeout)

\* requests over HTTP, one after the other, served through the chain
NextServe ==
    \/ \E r \in Requests : Request(SeqTask, r)
    \/ Serving(SeqTask)
    \/ Opening(SeqTask)
    \/ Refill

SpecServe == InitServe /\ [][NextServe]_vars

\* concurrent handlers opening any of the three files, as TestCacheConcurrent's
\* goroutines do; the sweep's period is longer than the run
NextConc ==
    \/ \E t \in Tasks, k \in Keys : Open_go(t, k)
    \/ \E t \in Tasks : Opening(t)

SpecConc == Init /\ [][NextConc]_vars

\* one client issuing the Opens of its script one after the other, as TestCache does
NextSeq ==
    \/ Open_script(SeqTask)
    \/ Opening(SeqTask)

SpecSeq == InitSeq /\ [][NextSeq]_vars

\* the name every client of the one-file run asks for
SameKey == Files[1]

\* concurrent clients, each opening the one file again and again; the sweep's
\* period is longer than the run
NextSame ==
    \/ \E t \in Tasks : Open_go(t, SameKey)
    \/ \E t \in Tasks : Opening(t)

SpecSame == Init /\ [][NextSame]_vars

\* concurrent Takes, with no time passing: no bucket is refilled
NextTake ==
    \/ \E t \in Tasks, key \in Hosts : Take_call(t, key)
    \/ \E t \in Tasks : Take_Get(t)
    \/ \E t \in Tasks : Take_new(t)
    \/ \E t \in Tasks : Take_Take(t)

SpecTake == Init /\ [][NextTake]_vars

\* the requests the readers' run sends
ReaderRequests ==
    {r \in Requests : r.path \in {"/file1", "/file2"} /\ r.query = ""
                         /\ r.xff = "" /\ r.remote = "10.0.0.2"}

InitReaders ==
    /\ Start(MaxCap, {<<>>})
    /\ srv = NewServer(FileServerChain, MaxTokens)

\* concurrent requests through this package's FileServer, each reading and
\* seeking the file it was given until serveFile returns and closes it
NextReaders ==
    \/ \E t \in Tasks, r \in ReaderRequests : Request(t, r)
    \/ \E t \in Tasks : ServeHTTP(t)
    \/ \E t \in Tasks : Opening(t)
    \/ \E t \in Tasks : file_Read(t)
    \/ \E t \in Tasks, o \in 0..MaxSeek : file_Seek(t, o)
    \/ \E t \in Tasks : serveFile(t)

SpecReaders == InitReaders /\ [][NextReaders]_vars

\* an Open of the origin client on whatever the origin answers, then served
NextOrigin ==
    \/ \E n \in RemoteNames, r \in Responses : rfs_Get(n, r)
    \/ \E now \in Clock : rfs_Open(now)
    \/ \E h \in PresetHeaders : rfs_serveFile(h)

SpecOrigin == Init /\ [][NextOrigin]_vars

\* ------------------------------------------------------------------ claims
\* C1: whenever no task is inside the cache's critical section, the cache holds
\* at most maxItems entries, in the list and in the map
C1_AtMostMaxItems ==
    fs.mux = Free =>
        /\ Len(fs.evictList) <= fs.maxItems
        /\ Cardinality(DOMAIN fs.cache) <= fs.maxItems

\* a full cache after more names were fetched than it holds
C1_Witness ==
    /\ fs.mux = Free
    /\ fs.maxItems >= 1
    /\ Len(fs.evictList) = fs.maxItems
    /\ Cardinality({k \in Keys : origin.filesStat[k] > 0}) > fs.maxItems

\* the sequential client's running Open asks for the name its previous Open
\* returned a file for
Reopening ==
    /\ pc[SeqTask] # "idle"
    /\ client.at > 1
    /\ client.script[client.at] = client.script[client.at - 1]
    /\ (client.at - 1) \in client.oks

\* the running Open does not go to the origin, and when it returns it returns a file
HitStep ==
    /\ pc'[SeqTask] # "fetch"
    /\ origin' = origin
    /\ pc'[SeqTask] = "idle" => client.at \in client'.oks

\* C2 as stated: once Open(k) has returned a file, the Open(k) that follows it
\* at once returns a file and does not raise the origin's fetch counters
C2_ReopenHits == [][Reopening => HitStep]_vars

\* C2 as amended: the same for a cache built with maxItems >= 1
C2_ReopenHitsWithRoom == [][(Reopening /\ fs.maxItems >= 1) => HitStep]_vars

\* two Opens of one name have returned a file after one origin fetch
C2_Witness ==
    /\ pc[SeqTask] = "idle"
    /\ fs.maxItems >= 1
    /\ client.at = 2
    /\ client.oks = {1, 2}
    /\ client.script[1] = client.script[2]
    /\ origin.filesStat[client.script[1]] = 1
    /\ origin.openCnt = 1

\* the latest use of k by the sequential client: the insert now under way, or
\* the last Open of k that returned a file (0 when there is none)
LastUse(k) ==
    IF k = name[SeqTask] THEN client.at
    ELSE LET uses == {i \in client.oks : client.script[i] = k}
         IN  IF uses = {} THEN 0 ELSE CHOOSE i \in uses : \A j \in uses : j <= i

\* add hands the tail to removeOldest in this step
EvictsOldest == pc[SeqTask] # "add_oldest" /\ pc'[SeqTask] = "add_oldest"

\* TestCache's Opens
ScenarioS1 == <<"file1", "file1", "file2", "file3", "file1">>

\* the client has run ScenarioS1 against a cache of two and every Open returned a file
RanS1 ==
    /\ fs.maxItems = 2
    /\ SubSeq(client.script, 1, 5) = ScenarioS1
    /\ client.at = 5
    /\ pc[SeqTask] = "idle"
    /\ client.oks = 1..5

\* C3: the entry an overfull insert removes is the one whose latest use is older
\* than that of every entry that stays; and ScenarioS1 against a cache of two
\* ends with the origin having served file1 twice, file2 and file3 once
C3_EvictsLeastRecentlyUsed ==
    [][/\ EvictsOldest =>
            \A k \in DOMAIN fs'.cache : LastUse(cent'[SeqTask].name) < LastUse(k)
       /\ RanS1' =>
            origin'.filesStat = [k \in Keys |-> IF k = "file1" THEN 2 ELSE 1]]_vars

\* ScenarioS1 has run, with file1 fetched again at the end
C3_Witness == RanS1 /\ origin.filesStat["file1"] = 2 /\ origin.openCnt = 4

\* Open of task t returns a file in this step
ReturnsFile(t) == pc[t] \in {"get_cs", "Add_cs"} /\ pc'[t] = "idle"

\* the entry for k is at the front of the list
AtFront(c, k) == c.evictList # <<>> /\ c.evictList[1].name = k

\* C4 as stated: right after an Open(k) that returns a file, the entry for k is
\* at the front of the list
C4_OpenedIsMRU == [][\A t \in Tasks : ReturnsFile(t) => AtFront(fs', name[t])]_vars

\* C4 as amended: the same for a cache built with maxItems >= 1
C4_OpenedIsMRUWithRoom ==
    [][\A t \in Tasks : (ReturnsFile(t) /\ fs.maxItems >= 1) => AtFront(fs', name[t])]_vars

\* a hit on an entry that is not at the front is about to promote it
C4_Witness ==
    \E t \in Tasks :
        /\ pc[t] = "get_cs"
        /\ name[t] \in DOMAIN fs.cache
        /\ fs.evictList[1].name # name[t]

\* C5: whenever no task is inside the cache's critical section, the invalidator
\* tracks exactly the cached names, each with the url, mtime and etag of the
\* file cached under it
C5_TrackedIsCached ==
    fs.mux = Free =>
        /\ DOMAIN ci.items = DOMAIN fs.cache
        /\ \A k \in DOMAIN fs.cache :
              /\ ci.items[k].basename = fs.cache[k].file.fi.basename
              /\ ci.items[k].modtime = fs.cache[k].file.fi.modtime
              /\ ci.items[k].etag = fs.cache[k].file.fi.etag

\* the sweep has k's eviction to do: delfn(k) is called and del has not looked k up
EvictPending(k) == run.name = k /\ run.pc \in {"del", "del_cs"}

\* every name the origin reported changed, and not inserted since, is out of
\* the cache once the sweep's delfn for it is through
ChangedIsAbsent ==
    \A k \in hist.changed : ~EvictPending(k) => k \notin DOMAIN fs.cache

\* an Open of such a name misses and goes to the origin
ChangedIsMissed ==
    \A t \in Tasks :
        (pc[t] = "get_cs" /\ name[t] \in hist.changed /\ ~EvictPending(name[t]))
            => pc'[t] \in {"get_cs", "fetch"}

\* C6: once a sweep got a status other than 304, 408 and 429 for the HEAD of an
\* inserted name k, k is out of the cache from the end of delfn(k) on, so after
\* that sweep, and the next Open(k) misses and fetches from the origin
\* and under SpecLive the delfn(k) the sweep has decided on does get through
C6_ChangedIsEvicted ==
    /\ [][ChangedIsAbsent' /\ ChangedIsMissed]_vars
    /\ \A k \in ConcKeys :
          (run.pc = "del" /\ run.name = k)
              ~> (run.pc = "range" /\ run.name = k /\ k \notin DOMAIN fs.cache)

\* a sweep is over, the origin said k changed, k was fetched before and is gone
C6_Witness ==
    \E k \in hist.changed :
        /\ run.pc = "select"
        /\ origin.filesStat[k] >= 1
        /\ k \notin DOMAIN fs.cache

\* C7: right after the fold's critical section the sweep's local items equal
\* the invalidator's tracked items
C7_FoldedIsTracked ==
    [][(run.pc = "fold_cs" /\ run'.pc = "range") => run'.items = ci'.items]_vars

\* what C8 says a sweep leaves alone
SameCache ==
    /\ fs'.cache = fs.cache
    /\ fs'.evictList = fs.evictList
    /\ fs'.size = fs.size
    /\ ci'.items = ci.items
    /\ ci'.added = ci.added
    /\ ci'.removed = ci.removed
    /\ ci'.lastmod = ci.lastmod

\* a step of the sweep that neither folds a delta nor is part of delfn
QuietSweepStep ==
    /\ run' # run
    /\ run.pc \notin {"del_cs", "del_Del_cs"}
    /\ ~(run.pc = "fold_cs" /\ ci.lastmod # run.lastmod)

\* C8: a sweep that finds no delta and gets 304 for every name changes neither
\* the cache's map, list and size nor the invalidator's items, deltas and
\* lastmod: none of its steps does, and a 304 never leads into delfn
C8_QuietSweepChangesNothing ==
    [][/\ QuietSweepStep => SameCache
       /\ run'.st = 304 => run'.pc = "range"]_vars

\* a sweep with nothing to fold has got 304 for a cached name
C8_Witness ==
    /\ run.st = 304
    /\ run.pc = "range"
    /\ run.lastmod = ci.lastmod
    /\ run.name \in DOMAIN fs.cache

\* the HEAD at hand is answered 408 or 429, or fails in transport, in this step
RetryAnswered == run.pc = "head" /\ run'.st \in {TransportError, 408, 429}

\* C9: a name whose HEAD gets 408 or 429 or fails in transport is not evicted
\* in that pass and stays in the snapshot, the pass goes on with the names
\* left, and the cache is as before, so the name's next Open still hits
C9_RetryKeeps ==
    [][RetryAnswered =>
          /\ run'.pc = "range"
          /\ run'.items = run.items
          /\ run'.todo = run.todo
          /\ fs' = fs
          /\ ci' = ci]_vars

\* the HEAD of a cached name got 408 or 429 and the pass has names left
C9_Witness ==
    /\ run.st \in {408, 429}
    /\ run.pc = "range"
    /\ run.name \in DOMAIN fs.cache
    /\ run.name \in DOMAIN run.items
    /\ run.todo # {}

\* del looks the name up in this step, after an insert of the name that waited
\* for fs.mux together with it went first
EvictAfterInsert == run.pc = "del_cs" /\ run'.pc # "del_cs" /\ hist.race.who = "insert"

\* Add of task t ends its insert in this step, after the evict of the name that
\* waited for fs.mux together with it went first
InsertAfterEvict(t) ==
    pc[t] = "Add_cs" /\ pc'[t] = "idle" /\ hist.race.who = "evict" /\ t \in hist.race.ts

\* C10: when an insert of k by an Open(k) that missed and the sweep's evict(k)
\* wait for fs.mux together, either the insert goes first and the evict then
\* finds nothing and changes nothing, or the evict goes first and the insert
\* then leaves a fresh entry that is marked added for the next sweep
\* (stated for maxItems >= 1, where an insert leaves an entry)
C10_InsertEvictRace ==
    [][fs.maxItems >= 1 =>
          /\ EvictAfterInsert =>
                /\ run.name \notin DOMAIN fs.cache
                /\ fs'.cache = fs.cache /\ fs'.evictList = fs.evictList
          /\ \A t \in Tasks : InsertAfterEvict(t) =>
                /\ name[t] \in DOMAIN fs'.cache
                /\ fs'.cache[name[t]].file = f[t]
                /\ name[t] \in ci'.added
                /\ ci'.items[name[t]] = f[t].fi]_vars

\* the body the origin serves for the name task t asked for
OriginBody(t) == Body(name[t], origin.files[Resource(name[t])])

\* Open of task t ends in this step with the origin's error
ReturnsOriginError(t) == pc[t] = "fetch" /\ pc'[t] = "idle"

\* C11: under any interleaving of concurrent Opens of three files on a cache
\* of at most two, an Open ends without a file only when its origin call
\* failed, and the file it returns, from the cache or from its own fetch, has
\* the origin's body for the name asked, never another name's
C11_ReturnsOwnBody ==
    [][\A t \in Tasks :
          /\ (pc[t] # "idle" /\ pc'[t] = "idle") => (ReturnsFile(t) \/ ReturnsOriginError(t))
          /\ (ReturnsFile(t) /\ pc[t] = "get_cs")
                 => readClone(fs.cache[name[t]].file, t).buf = OriginBody(t)
          /\ (ReturnsFile(t) /\ pc[t] = "Add_cs") => readClone(f[t], t).buf = OriginBody(t)]_vars

\* all three files were fetched into a cache of two and a hit is about to return
C11_Witness ==
    /\ fs.maxItems = 2
    /\ \A k \in Keys : origin.filesStat[k] >= 1
    /\ \E t \in Tasks : pc[t] = "get_cs" /\ name[t] \in DOMAIN fs.cache

\* the sequential client's running Open asks again for the name its previous
\* Open got the origin's error for
ReopeningFailed ==
    /\ client.at > 1
    /\ client.script[client.at] = client.script[client.at - 1]
    /\ (client.at - 1) \notin client.oks

\* C12: an Open whose origin call fails has made that one origin call only and
\* ends there, with the cache (map, list, size) and the invalidator as they
\* were; nothing of the failure is cached, so the next Open of the name goes
\* to the origin again
C12_FailureNotCached ==
    [][/\ pc[SeqTask] \in {"get", "get_cs"} => origin' = origin
       /\ ReturnsOriginError(SeqTask) =>
              /\ origin'.openCnt = origin.openCnt + 1
              /\ origin'.filesStat = origin.filesStat
              /\ fs' = fs
              /\ ci' = ci
       /\ (ReopeningFailed /\ pc[SeqTask] = "get_cs") => pc'[SeqTask] = "fetch"]_vars

\* two Opens of one name both got the origin's error: two origin calls
C12_Witness ==
    /\ pc[SeqTask] = "idle"
    /\ client.at = 2
    /\ client.script[1] = client.script[2]
    /\ client.oks = {}
    /\ origin.openCnt = 2
    /\ fs.cache = EmptyMap

\* C13: whenever no task is inside the cache's critical section, the names in
\* the map are the names on the list, no name is on two nodes, and the map's
\* entry for a name is the node of that name on the list
C13_MapMatchesList ==
    fs.mux = Free =>
        /\ DOMAIN fs.cache = {fs.evictList[i].name : i \in 1..Len(fs.evictList)}
        /\ \A i, j \in 1..Len(fs.evictList) :
              i # j => fs.evictList[i].name # fs.evictList[j].name
        /\ \A k \in DOMAIN fs.cache :
              fs.cache[k].name = k /\ InList(fs.evictList, fs.cache[k])

\* an entry is cached after another name's entry was removed
C13_Witness ==
    /\ fs.mux = Free
    /\ fs.evictList # <<>>
    /\ ci.removed \ DOMAIN fs.cache # {}

\* task t is inside invalidator.Add or invalidator.Del, called from add
InInvalidator(t) == pc[t] \in {"Del_existing", "Del_oldest", "Add_cs"}

\* the sweep is inside del, the eviction callback
InEvict == run.pc \in {"del_cs", "del_Del", "del_Del_cs"}

\* C14: a task inside the invalidator's Add or Del on behalf of a cache
\* mutation holds ci.mux and not fs.mux; the sweep inside del holds fs.mux and
\* not ci.mux; and del of a name that is not cached changes nothing
C14_OneMutexAtATime ==
    [][/\ \A t \in Tasks : InInvalidator(t)' => (ci'.mux = t /\ fs'.mux # t)
       /\ InEvict' => (fs'.mux = Sweeper /\ ci'.mux # Sweeper)
       /\ (run.pc = "del_cs" /\ run'.pc # "del_cs" /\ run.name \notin DOMAIN fs.cache)
              => (fs'.cache = fs.cache /\ fs'.evictList = fs.evictList /\ ci' = ci)]_vars

\* C15: a task whose origin GET is in flight, and the sweep while its
\* conditional HEAD is in flight, hold neither fs.mux nor ci.mux
C15_NoMutexDuringIO ==
    /\ \A t \in Tasks : pc[t] = "fetch" => (fs.mux # t /\ ci.mux # t)
    /\ run.pc = "head" => (fs.mux # Sweeper /\ ci.mux # Sweeper)

\* a GET and a HEAD are in flight at once
C15_Witness == run.pc = "head" /\ \E t \in Tasks : pc[t] = "fetch"

\* the run loop moves in this step
RunSteps == run' # run

\* C16: once Close has closed quit, run returns from its select: at once when
\* it waits there (no further tick), otherwise when the sweep under way has
\* ranged over all its names; run does return, Close returns nil only when run
\* has returned, and Close does return, nil or the Timeout error
C16_CloseStopsRun ==
    /\ [][/\ (ci.quit /\ run.pc = "select" /\ RunSteps) => run'.pc = "exited"
          /\ (run.pc # "exited" /\ run'.pc = "exited") => (ci.quit /\ run.pc = "select")
          /\ run.pc = "exited" => run' = run
          /\ closer' = "ok" => run'.pc = "exited"]_vars
    /\ ci.quit ~> (run.pc = "exited")
    /\ (closer = "waiting") ~> (closer \in {"ok", "Timeout"})

\* Close has closed quit and waits while the sweep under way has a HEAD in flight
C16_Witness ==
    /\ closer = "waiting"
    /\ ci.quit
    /\ run.pc = "head"

\* the request of task t is over in this step, at the handler it is at
Answers(t) == srv.at[t] # 0 /\ srv'.at[t] = 0

\* C17: when the cache's Open returned an error, whichever the origin's
\* failure was, serveFile answers 404 and writes neither ETag nor body of a file
C17_OpenErrorIs404 ==
    [][\A t \in Tasks :
          (Handler(t) = "FileServer" /\ srv.ret[t].state = "err" /\ Answers(t))
              => /\ srv'.resp[t].status = 404
                 /\ srv'.resp[t].header.etag = srv.resp[t].header.etag
                 /\ "ETag" \in srv'.resp[t].header.has <=> "ETag" \in srv.resp[t].header.has
                 /\ srv'.resp[t].body = <<"404 page not found">>]_vars

\* a request through this package's file server was answered 404 after an
\* origin call
C17_Witness ==
    \E t \in Tasks :
        /\ srv.chain = FileServerChain
        /\ srv.at[t] = 0
        /\ srv.resp[t].status = 404
        /\ origin.openCnt >= 1

\* ratelimitHandler acts for task t in this step
Admission(t) == Handler(t) = "ratelimitHandler" /\ srv'.at[t] # srv.at[t]

\* the client of task t's request has an address and its bucket has no token
NoToken(t) ==
    /\ ~clientAddr(srv.req[t]).err
    /\ Tokens(srv, clientAddr(srv.req[t]).host) < 1

\* the client of task t's request has an address and its bucket has a token
HasToken(t) ==
    /\ ~clientAddr(srv.req[t]).err
    /\ Tokens(srv, clientAddr(srv.req[t]).host) >= 1

\* C18: when Take declines, ratelimitHandler answers 429 and the request is
\* over without the wrapped handler, Open or the origin being called; when
\* Take grants, the wrapped handler is called, once for the request
C18_DeclinedIsNotServed ==
    [][\A t \in Tasks :
          /\ (Admission(t) /\ NoToken(t)) =>
                 /\ Answers(t)
                 /\ srv'.resp[t].status = 429
                 /\ srv'.invoked[t] = 0
                 /\ pc'[t] = "idle"
                 /\ origin' = origin
                 /\ fs' = fs
          /\ (Admission(t) /\ HasToken(t)) =>
                 /\ srv'.invoked[t] = 1
                 /\ Handler(t)' = "FileServer"
          /\ srv'.invoked[t] <= 1
          /\ (srv.chain = RatelimitedChain /\ pc'[t] # "idle") => srv'.granted[t]]_vars

\* a request was declined and answered 429 after an earlier one was served
C18_Witness ==
    \E t \in Tasks :
        /\ srv.chain = RatelimitedChain
        /\ srv.at[t] = 0
        /\ srv.resp[t].status = 429
        /\ origin.openCnt >= 1

\* C19: in the chain installHandlers builds, a request whose Open is under
\* way has been granted a token by Take
C19_AdmissionBeforeCache ==
    \A t \in Tasks : (srv.chain = InstalledChain /\ pc[t] # "idle") => srv.granted[t]

\* the name fileHandler.ServeHTTP would look up for the path alone
PathName(r) == ServeName([r EXCEPT !.query = ""])

\* C20: the name this package's file server opens is the name of the request's
\* path whatever the raw query, so a request for a path already cached under
\* that name is a hit
C20_KeyIsPathOnly ==
    [][\A t \in Tasks :
          /\ (Handler(t)' = "FileServer" /\ pc'[t] # "idle") => name'[t] = PathName(srv'.req[t])
          /\ (Handler(t) = "FileServer" /\ pc[t] = "get_cs"
                  /\ PathName(srv.req[t]) \in DOMAIN fs.cache) => pc'[t] = "idle"]_vars

\* the origin client built a file
Built == rfs.pc \in {"Open", "served"} /\ rfs.ret.state = "file"

\* C21: the size in the fileInfo of every file the origin client builds is the
\* number of bytes of its body, whichever way its content type and its etag
\* were found
C21_SizeIsBodyLength == Built => rfs.ret.file.fi.size = Len(rfs.ret.file.buf)

\* Open has returned for the response at hand
Opened == rfs.pc \in {"Open", "served"}

\* C23: Open returns the error of Get when Get failed, http.ErrMissingFile
\* when the status is not 200 or the declared length is not positive, and a
\* file only for a 200 of positive declared length whose body was read in
\* full; the file then holds that body
C23_FetchOutcomes ==
    Opened =>
        /\ rfs.res.err => rfs.ret = Failed("transport")
        /\ (~rfs.res.err /\ (rfs.res.StatusCode # 200 \/ rfs.res.ContentLength <= 0))
              => rfs.ret = Failed("http: no such file")
        /\ rfs.ret.state = "file" <=>
              /\ ~rfs.res.err
              /\ rfs.res.StatusCode = 200
              /\ rfs.res.ContentLength > 0
              /\ ~rfs.res.readErr
        /\ rfs.ret.state = "file" => rfs.ret.file.buf = rfs.res.Body

\* Open has answered a response that is not a 200 and has a body of the
\* length it declares
C23_Witness ==
    /\ Opened
    /\ rfs.res.StatusCode = 404
    /\ rfs.res.ContentLength = 3
    /\ ~rfs.res.readErr
    /\ rfs.ret.state = "err"

\* e is s without the double quotes it starts and ends with
IsUnquoted(e, s) ==
    \E i \in 1..Len(s), j \in 1..Len(s) :
        /\ e = SubSeq(s, i, j)
        /\ s[i] # Quote /\ s[j] # Quote
        /\ \A k \in 1..Len(s) : (k < i \/ k > j) => s[k] = Quote

\* s has more in it than double quotes
HasValue(s) == \E k \in 1..Len(s) : s[k] # Quote

\* serveFile has answered with the file Open returned
Served == rfs.pc = "served" /\ rfs.ret.state = "file"

\* C24: the etag of a file the origin client builds is the Etag header of the
\* response without the double quotes around it when that leaves something,
\* else the hex MD5 of the whole body; it is never empty, and serveFile sends
\* it as the ETag of a response that has none yet
C24_EtagOfFile ==
    /\ Built =>
          /\ HasValue(rfs.res.Header.etag)
                => IsUnquoted(rfs.ret.file.fi.etag, rfs.res.Header.etag)
          /\ ~HasValue(rfs.res.Header.etag)
                => rfs.ret.file.fi.etag = Md5Hex(rfs.res.Body)
          /\ rfs.ret.file.fi.etag # NoTag
    /\ (Served /\ "ETag" \notin rfs.w.header.has) =>
          /\ "ETag" \in rfs.resp.header.has
          /\ rfs.resp.header.etag = rfs.ret.file.fi.etag

\* a file of a response whose Etag header is a quoted value was served with
\* the value as its ETag
C24_Witness ==
    /\ Served
    /\ rfs.res.Header.etag = <<Quote, "v", "1", Quote>>
    /\ "ETag" \notin rfs.w.header.has
    /\ rfs.resp.header.etag = <<"v", "1">>

GivesFile(t) == srv.ret[t].state # "file" /\ srv'.ret[t].state = "file"

\* task t reads from or seeks in the file it holds in this step
MovesReader(t) ==
    /\ srv.ret[t].state = "file" /\ srv'.ret[t].state = "file"
    /\ srv'.ret[t].file.pos # srv.ret[t].file.pos

\* C22: every file Open returns reads from offset 0 over the bytes cached for
\* its name; a Read or Seek on one file moves no other task's file and changes
\* neither the bytes and fileInfo of its own file nor the cache; two files
\* held at once for one cached file have the same bytes
C22_IndependentReaders ==
    [][\A t \in Tasks :
          /\ GivesFile(t) =>
                /\ srv'.ret[t].file.pos = 0
                /\ srv'.ret[t].file.buf = OriginBody(t)
          /\ MovesReader(t) =>
                /\ \A u \in Tasks \ {t} : srv'.ret[u] = srv.ret[u]
                /\ fs' = fs
                /\ f' = f
                /\ srv'.ret[t].file.buf = srv.ret[t].file.buf
                /\ srv'.ret[t].file.fi = srv.ret[t].file.fi
          /\ \A u \in Tasks :
                (srv'.ret[t].state = "file" /\ srv'.ret[u].state = "file"
                     /\ srv'.ret[t].file.fi = srv'.ret[u].file.fi)
                    => srv'.ret[t].file.buf = srv'.ret[u].file.buf]_vars

\* two tasks hold files of one cached file, one read to its end and the other
\* still at offset 0
C22_Witness ==
    \E t \in Tasks, u \in Tasks :
        /\ t # u
        /\ Holds(t) /\ Holds(u)
        /\ srv.ret[t].file.fi = srv.ret[u].file.fi
        /\ Len(srv.ret[t].file.buf) = 2
        /\ srv.ret[t].file.pos = 2
        /\ srv.ret[u].file.pos = 0

\* in this step: an Open ends with an error only when its origin call failed,
\* an Open that returns a file returns one the origin was asked for, and the
\* origin has served the file at most once per client
SameKeyFetches ==
    /\ \A t \in Tasks :
          /\ (pc[t] # "idle" /\ pc'[t] = "idle") => (ReturnsFile(t) \/ ReturnsOriginError(t))
          /\ ReturnsFile(t) => origin.filesStat[SameKey] >= 1
    /\ origin'.filesStat[SameKey] <= Cardinality(Tasks)

\* C25 as stated: with every client opening the same file of the origin again
\* and again, no other name asked for and no sweep, every Open whose origin
\* call does not fail returns a file, and the origin serves the file at least
\* once and at most once per client
C25_SameKeyFetches == [][SameKeyFetches]_vars

\* C25 as amended: the same for a cache built with maxItems >= 1
C25_SameKeyFetchesWithRoom == [][fs.maxItems >= 1 => SameKeyFetches]_vars

\* every client has fetched the file in a first miss, and an Open now hits
C25_Witness ==
    /\ fs.maxItems >= 1
    /\ origin.filesStat[SameKey] = Cardinality(Tasks)
    /\ \E t \in Tasks : pc[t] = "get_cs" /\ name[t] \in DOMAIN fs.cache

\* task t pushes its new entry in this step: add past the removal of an
\* existing entry for the name
Pushes(t) ==
    /\ pc'[t] # pc[t]
    /\ \/ pc[t] = "add_cs" /\ name[t] \notin DOMAIN fs.cache
       \/ pc[t] = "Del_existing"

\* the entry task t inserts
NewEntry(t) == [file |-> f[t], name |-> name[t]]

\* C26: the push of an insert onto a full list evicts the tail and nothing
\* else, leaving maxItems entries; a push that leaves at most maxItems entries,
\* that of a replacement included, evicts nothing
C26_EvictsOnlyTheTail ==
    [][\A t \in Tasks :
          Pushes(t) =>
              /\ Len(fs.evictList) + 1 > fs.maxItems =>
                    /\ Len(fs.evictList) = fs.maxItems
                    /\ fs'.evictList =
                          SubSeq(<<NewEntry(t)>> \o fs.evictList, 1, Len(fs.evictList))
                    /\ pc'[t] = "add_oldest"
                    /\ cent'[t] = (<<NewEntry(t)>> \o fs.evictList)[Len(fs.evictList) + 1]
              /\ Len(fs.evictList) + 1 <= fs.maxItems =>
                    /\ fs'.evictList = <<NewEntry(t)>> \o fs.evictList
                    /\ pc'[t] = "add_Add"
              /\ pc[t] = "Del_existing" => Len(fs.evictList) + 1 <= fs.maxItems
              /\ DOMAIN fs'.cache = {fs'.evictList[i].name : i \in 1..Len(fs'.evictList)}]_vars

\* an insert into a full cache of two has evicted the tail, another name's entry
C26_Witness ==
    \E t \in Tasks :
        /\ pc[t] = "add_oldest"
        /\ fs.maxItems = 2
        /\ Len(fs.evictList) = 2
        /\ fs.evictList[1].name = name[t]
        /\ cent[t].name \notin DOMAIN fs.cache
        /\ cent[t].name # name[t]

\* the names of the entries of a list
Names(l) == {l[i].name : i \in 1..Len(l)}

\* the entries of a list that have the name k
Count(l, k) == Cardinality({i \in 1..Len(l) : l[i].name = k})

\* C27: an insert for a name that has an entry takes the old entry out of the
\* list and the map, deletes its record in the invalidator, and then pushes
\* the new entry without evicting: the count is what it was, the one entry for
\* the name is at the front and holds the new file, nobody else changes the
\* cache meanwhile, and when the insert ends the invalidator's record for the
\* name is the new file's fileInfo
C27_ReplacementInsert ==
    [][\A t \in Tasks :
          /\ (pc[t] = "add_cs" /\ pc'[t] # pc[t] /\ name[t] \in DOMAIN fs.cache) =>
                /\ pc'[t] = "add_existing"
                /\ cent'[t] = fs.cache[name[t]]
                /\ Len(fs'.evictList) = Len(fs.evictList) - 1
                /\ name[t] \notin Names(fs'.evictList)
                /\ name[t] \notin DOMAIN fs'.cache
          /\ (pc[t] = "Del_existing" /\ pc'[t] # pc[t]) =>
                /\ name[t] \notin DOMAIN ci'.items
                /\ name[t] \in ci'.removed
                /\ pc'[t] = "add_Add"
                /\ Len(fs'.evictList) = Len(fs.evictList) + 1
                /\ Len(fs'.evictList) <= fs.maxItems
                /\ fs'.evictList[1] = NewEntry(t)
                /\ Count(fs'.evictList, name[t]) = 1
                /\ fs'.cache[name[t]] = NewEntry(t)
          /\ (pc[t] \in {"add_existing", "Del_existing", "add_Add", "Add_cs"}
                  /\ pc'[t] = pc[t]) =>
                /\ fs'.evictList = fs.evictList
                /\ fs'.cache = fs.cache
          /\ (pc[t] = "Add_cs" /\ pc'[t] # pc[t] /\ name[t] \in DOMAIN fs.cache) =>
                /\ fs'.evictList = fs.evictList
                /\ fs.evictList[1] = NewEntry(t)
                /\ Count(fs.evictList, name[t]) = 1
                /\ ci'.items[name[t]] = f[t].fi
                /\ name[t] \in ci'.added]_vars

\* the loser of two misses on one name has taken the winner's entry out and is
\* about to push its own, another representation of the file
C27_Witness ==
    \E t \in Tasks :
        /\ pc[t] = "Del_existing"
        /\ cent[t].name = name[t]
        /\ cent[t].file # f[t]
        /\ name[t] \notin DOMAIN fs.cache
        /\ fs.maxItems = 2

\* the sweep's del looks its name up in this step
DelLooksUp == run.pc = "del_cs" /\ run'.pc # run.pc

\* C28: del of a name that has an entry takes the entry off the list and out
\* of the map, takes its size off the byte total and has invalidator.Del delete
\* the record and note the name as removed; del of a name that has none leaves
\* list, map, byte total and the invalidator's items, added, removed and
\* lastmod as they were, which is what a second del of the same name finds
C28_DelIsIdempotent ==
    [][/\ (DelLooksUp /\ run.name \in DOMAIN fs.cache) =>
              /\ run'.pc = "del_Del"
              /\ run'.cent = fs.cache[run.name]
              /\ Names(fs'.evictList) = Names(fs.evictList) \ {run.name}
              /\ Len(fs'.evictList) = Len(fs.evictList) - 1
              /\ DOMAIN fs'.cache = DOMAIN fs.cache \ {run.name}
              /\ fs'.size = fs.size - fs.cache[run.name].file.fi.size
       /\ (DelLooksUp /\ run.name \notin DOMAIN fs.cache) =>
              /\ run'.pc = "range"
              /\ fs'.evictList = fs.evictList
              /\ fs'.cache = fs.cache
              /\ fs'.size = fs.size
              /\ fs'.mux = Free
              /\ ci' = ci
       /\ (run.pc = "del_Del_cs" /\ run'.pc # run.pc) =>
              /\ run.cent.name \notin DOMAIN ci'.items
              /\ run.cent.name \notin DOMAIN fs'.cache
              /\ ci'.removed = ci.removed \cup {run.cent.name}
              /\ ci'.added = ci.added
              /\ ci'.lastmod = ci.lastmod + 1
              /\ fs'.evictList = fs.evictList /\ fs'.cache = fs.cache /\ fs'.size = fs.size
       /\ (run.pc \in {"del_Del", "del_Del_cs"} /\ run'.pc = run.pc) =>
              fs' = fs]_vars

\* the sweep's del is about to look up a name whose entry was removed before
C28_Witness ==
    /\ run.pc = "del_cs"
    /\ run.name \notin DOMAIN fs.cache
    /\ run.name \in ci.removed

\* the sum of the sizes of the files of the entries of a list
RECURSIVE SumSizes(_)
SumSizes(l) == IF l = <<>> THEN 0 ELSE Head(l).file.fi.size + SumSizes(Tail(l))

\* the entry named k is taken off the list in this step for one of the reasons
\* add and del have: an insert of k replaces it, an insert pushes onto a list
\* that has maxItems entries and k is its tail, or the sweep's del removes it
RemovedForCause(k) ==
    \/ \E t \in Tasks : pc[t] = "add_cs" /\ pc'[t] = "add_existing" /\ name[t] = k
    \/ \E t \in Tasks : /\ Pushes(t)
                        /\ pc'[t] = "add_oldest"
                        /\ Len(fs.evictList) + 1 > fs.maxItems
                        /\ k = (<<NewEntry(t)>> \o fs.evictList)[Len(fs.evictList) + 1].name
    \/ run.pc = "del_cs" /\ run'.pc = "del_Del" /\ run.name = k

\* C29: whenever no task is inside the cache's critical section, fs.size is the
\* sum of the sizes of the cached files, 0 for an empty cache; and an entry
\* leaves the list only by a replacement, a push past maxItems or the sweep's
\* del, whatever fs.size is against maxSize
C29_SizeIsSumOfSizes ==
    [][/\ fs'.mux = Free => fs'.size = SumSizes(fs'.evictList)
       /\ fs'.evictList = <<>> => fs'.size = 0
       /\ \A k \in Names(fs.evictList) \ Names(fs'.evictList) : RemovedForCause(k)
       /\ \A t \in Tasks :
             (Pushes(t) /\ Len(fs.evictList) + 1 <= fs.maxItems) =>
                 Names(fs'.evictList) = Names(fs.evictList) \cup {name[t]}]_vars

\* two files are cached and their sizes add up to more than maxSize
C29_Witness ==
    /\ fs.mux = Free
    /\ Len(fs.evictList) = 2
    /\ fs.size = SumSizes(fs.evictList)
    /\ fs.size > fs.maxSize

\* C31: with no time passing, the Takes granted for a key are at most Capacity
\* under any interleaving, and every Take for a key takes from the bucket
\* cached under the key
C31_AtMostCapacityGranted ==
    /\ \A k \in Hosts : ratelimiter.granted[k] <= ratelimiter.Capacity
    /\ \A t \in Tasks : ratelimiter.pc[t] = "Take" => ratelimiter.bucket[t] = ratelimiter.buckets[ratelimiter.key[t]]

\* the tasks that lock mutexes: the handlers and the sweep
Lockers == Tasks \cup {Sweeper}

\* x takes fs.mux, or ci.mux, in this step
TakesFs(x) == fs.mux # x /\ fs'.mux = x

TakesCi(x) == ci.mux # x /\ ci'.mux = x

\* the positions at which the sweep, or a handler, waits for a mutex; the
\* position after each is one inside the critical section
RunWaits == {"fold", "del", "del_Del"}

TaskWaits == {"get", "add", "add_existing", "add_oldest", "add_Add"}

\* C32: nobody takes fs.mux while holding ci.mux, a handler takes ci.mux only
\* inside add with fs.mux held, the sweep does not hold ci.mux when it calls
\* delfn or anywhere in del before its own invalidator.Del, and, with the
\* scheduling the runtime gives, a handler or the sweep waiting for a mutex
\* gets past the wait
C32_DeadlockFree ==
    /\ [][/\ \A x \in Lockers : TakesFs(x) => ci.mux # x
          /\ \A t \in Tasks : TakesCi(t) => fs.mux = t
          /\ run'.pc \in {"del", "del_cs", "del_Del"} => ci'.mux # Sweeper]_vars
    /\ \A t \in Tasks : (pc[t] \in TaskWaits) ~> (pc[t] \notin TaskWaits)
    /\ (run.pc \in RunWaits) ~> (run.pc \notin RunWaits)

\* a handler inside add waits for ci.mux, which the sweep holds for its fold,
\* and another handler waits for fs.mux
C32_Witness ==
    \E t \in Tasks, u \in Tasks :
        /\ pc[t] = "add_Add"
        /\ fs.mux = t
        /\ ci.mux = Sweeper
        /\ pc[u] \in {"get", "add"}

\* C33: when the sweep's del removes the entry cached under a name, the file
\* of that entry has the modtime and the etag the sweep sent in the HEAD for
\* the name, those of its local items
C33_EvictsWhatWasChecked ==
    [][(DelLooksUp /\ run.name \in DOMAIN fs.cache) =>
          /\ fs.cache[run.name].file.fi.modtime = run.items[run.name].modtime
          /\ fs.cache[run.name].file.fi.etag = run.items[run.name].etag]_vars

\* invalidator.Add or invalidator.Del runs in this step, for a handler or for
\* the sweep's del
AddOrDel ==
    \/ \E t \in Tasks : pc[t] \in {"Del_existing", "Del_oldest", "Add_cs"} /\ pc'[t] # pc[t]
    \/ run.pc = "del_Del_cs" /\ run'.pc # run.pc

\* the sweep is in its critical section and finds lastmod as it remembers it
FoldSkipped == run.pc = "fold_cs" /\ ci.lastmod = run.lastmod

\* C34: ci.lastmod never goes down and goes up by one with every Add and Del
\* and with nothing else; when the sweep finds it equal to its local lastmod,
\* added and removed are empty; and when the sweep leaves its critical
\* section, added and removed are empty and its local lastmod is ci.lastmod
C34_LastmodCountsDeltas ==
    [][/\ AddOrDel => ci'.lastmod = ci.lastmod + 1
       /\ ~AddOrDel => ci'.lastmod = ci.lastmod
       /\ FoldSkipped => (ci.added = {} /\ ci.removed = {})
       /\ (run.pc = "fold_cs" /\ run'.pc # run.pc) =>
             /\ ci'.added = {}
             /\ ci'.removed = {}
             /\ run'.lastmod = ci'.lastmod]_vars

\* the sweep finds lastmod unchanged since a fold that took deltas in
C34_Witness == FoldSkipped /\ ci.lastmod >= 2
====
